---- MODULE Spec2Model ----
(***************************************************************************)
(* Model of the mdbook-ai-pocket-reference preprocessor                    *)
(* (src/src/ai_pocket_reference.rs).                                       *)
(*                                                                         *)
(* A chapter is a sequence of one-character strings; offsets are 0-based   *)
(* as in the Rust code (the chapters explored are ASCII, so byte offsets   *)
(* and character offsets coincide).  The two regular expressions are       *)
(* modelled by matchers that follow the leftmost-first semantics of the    *)
(* regex crate; the fixed text of the handlebars templates is represented  *)
(* by multi-character tokens, the interpolated values by their characters. *)
(***************************************************************************)
EXTENDS Integers, Sequences, FiniteSets, TLC

VARIABLES s, num_words, pc, it, previous_end_index, replaced, aipr_replaced,
          content, renders, events, result, param_str, settings

vars == <<s, num_words, pc, it, previous_end_index, replaced, aipr_replaced,
          content, renders, events, result, param_str, settings>>

(***************************************************************************)
(* Strings                                                                 *)
(***************************************************************************)

\* &t[a..b] : the slice from offset a (inclusive) to offset b (exclusive).
Slice(t, a, b) == SubSeq(t, a + 1, b)

\* the character at 0-based offset i, "" outside the string.
At(t, i) == IF i >= 0 /\ i < Len(t) THEN t[i + 1] ELSE ""

\* Option<T>
None == [some |-> FALSE, v |-> <<>>]

Some(x) == [some |-> TRUE, v |-> x]

\* str::starts_with
StartsWith(t, p) == Len(t) >= Len(p) /\ SubSeq(t, 1, Len(p)) = p

\* the regex class \s, str::trim and char::is_whitespace accept the characters
\* with the Unicode property White_Space: U+0009 to U+000D (tab, line feed,
\* vertical tab, form feed, carriage return), the space, U+0085, U+00A0,
\* U+1680, U+2000 to U+200A, U+2028, U+2029, U+202F, U+205F and U+3000.  The
\* set holds those of them a string of this module can hold, which is all of
\* them up to U+1680.
WhiteSpace ==
    {"\t", "\n", "", "\f", "\r", " ", "", " ", " "}

\* the regex class [a-zA-Z0-9_]
IdentChars ==
    {"a","b","c","d","e","f","g","h","i","j","k","l","m","n","o","p","q","r",
     "s","t","u","v","w","x","y","z",
     "A","B","C","D","E","F","G","H","I","J","K","L","M","N","O","P","Q","R",
     "S","T","U","V","W","X","Y","Z",
     "0","1","2","3","4","5","6","7","8","9","_"}

\* first offset j >= i whose character is not in C (Len(t) if there is none):
\* the end of a greedy run of a character class.
RECURSIVE RunEnd(_, _, _)
RunEnd(t, i, C) ==
    IF i < Len(t) /\ t[i + 1] \in C THEN RunEnd(t, i + 1, C) ELSE i

\* first offset j >= i whose character is in X (Len(t) if there is none):
\* the end of a greedy run of a negated character class.
RECURSIVE RunEndNot(_, _, _)
RunEndNot(t, i, X) ==
    IF i < Len(t) /\ t[i + 1] \notin X THEN RunEndNot(t, i + 1, X) ELSE i

Max(S) == CHOOSE x \in S : \A y \in S : y <= x

\* str::trim
Trim(t) ==
    LET a == RunEnd(t, 0, WhiteSpace)
        ends == {b \in a..Len(t) : b = a \/ t[b] \notin WhiteSpace}
    IN Slice(t, a, Max(ends))

AIPR_HEADER_NAME == <<"a","i","p","r","_","h","e","a","d","e","r">>

HTTP_PREFIX == <<"h","t","t","p",":","/","/">>

HTTPS_PREFIX == <<"h","t","t","p","s",":","/","/">>

(***************************************************************************)
(* find_aipr_links: the directive regex                                    *)
(***************************************************************************)

NoCap == [matched |-> FALSE, start |-> 0, end |-> 0, g1 |-> None, g2 |-> None]

\* first alternative, \\\{\{\#.*\}\} : the greedy .* runs to the last }} of
\* the line.
EscapedAt(t, i) ==
    IF At(t, i) = "\\" /\ At(t, i + 1) = "{" /\ At(t, i + 2) = "{"
       /\ At(t, i + 3) = "#"
    THEN LET eol == RunEndNot(t, i + 4, {"\n"})
             closers == {j \in (i + 4)..(eol - 2) :
                            t[j + 1] = "}" /\ t[j + 2] = "}"}
         IN IF closers = {} THEN NoCap
            ELSE [matched |-> TRUE, start |-> i, end |-> Max(closers) + 2,
                  g1 |-> None, g2 |-> None]
    ELSE NoCap

\* second alternative, \{\{\s*\#([a-zA-Z0-9_]+)\s+([^}]+)?\}\}
MarkerAt(t, i) ==
    IF At(t, i) = "{" /\ At(t, i + 1) = "{"
    THEN LET p == RunEnd(t, i + 2, WhiteSpace)
             q == RunEnd(t, p + 1, IdentChars)
             r == RunEnd(t, q, WhiteSpace)
             e == RunEndNot(t, r, {"}"})
         IN IF At(t, p) = "#" /\ q > p + 1 /\ r > q
               /\ At(t, e) = "}" /\ At(t, e + 1) = "}"
            THEN [matched |-> TRUE, start |-> i, end |-> e + 2,
                  g1 |-> Some(Slice(t, p + 1, q)),
                  g2 |-> IF e > r THEN Some(Slice(t, r, e)) ELSE None]
            ELSE NoCap
    ELSE NoCap

AiprCapAt(t, i) ==
    IF EscapedAt(t, i).matched THEN EscapedAt(t, i) ELSE MarkerAt(t, i)

\* CaptureMatches::next: the leftmost match starting at or after pos.
RECURSIVE AiprNextCap(_, _)
AiprNextCap(t, pos) ==
    IF pos >= Len(t) THEN NoCap
    ELSE IF AiprCapAt(t, pos).matched THEN AiprCapAt(t, pos)
    ELSE AiprNextCap(t, pos + 1)

(***************************************************************************)
(* find_md_links: the link regex                                           *)
(***************************************************************************)

\* \[([^\]]*(?:\\.[^\]]*)*)\]\(([^)]*(?:\\.[^)]*)*)\)  with the opening [ at i.
\* The text closes at the first ] that is followed by ( and a later ); a ]
\* can be passed over only as the second character of an escape \\. ; the
\* URL closes at the first ) .
RECURSIVE MdCloseFrom(_, _, _)
MdCloseFrom(t, i, j) ==
    LET c == RunEndNot(t, j, {"]"})
        u == RunEndNot(t, c + 2, {")"})
    IN IF c >= Len(t) THEN NoCap
       ELSE IF At(t, c + 1) = "(" /\ u < Len(t)
       THEN [matched |-> TRUE, start |-> i, end |-> u + 1,
             g1 |-> Some(Slice(t, i + 1, c)), g2 |-> Some(Slice(t, c + 2, u))]
       ELSE IF c - 1 > i /\ At(t, c - 1) = "\\" THEN MdCloseFrom(t, i, c + 1)
       ELSE NoCap

MdCapAt(t, i) == IF At(t, i) = "[" THEN MdCloseFrom(t, i, i + 1) ELSE NoCap

RECURSIVE MdNextCap(_, _)
MdNextCap(t, pos) ==
    IF pos >= Len(t) THEN NoCap
    ELSE IF MdCapAt(t, pos).matched THEN MdCapAt(t, pos)
    ELSE MdNextCap(t, pos + 1)

(***************************************************************************)
(* AIPRHeaderSettings and the parameter mini-language                      *)
(***************************************************************************)

\* impl Default for AIPRHeaderSettings
DefaultSettings == [reading_time |-> TRUE, submit_issue |-> TRUE, colab |-> None]

\* str::split(sep): the pieces between the separators, in order.
RECURSIVE Split(_, _)
Split(t, sep) ==
    LET j == RunEndNot(t, 0, {sep})
    IN IF j >= Len(t) THEN <<t>>
       ELSE <<Slice(t, 0, j)>> \o Split(Slice(t, j + 1, Len(t)), sep)

\* mutant of SplitOnce: the value is not trimmed
SplitOnceValueUntrimmed(pair) ==
    LET j == RunEndNot(pair, 0, {"="})
    IN IF j >= Len(pair) THEN None
       ELSE Some([key |-> Trim(Slice(pair, 0, j)),
                  value |-> Slice(pair, j + 1, Len(pair))])

\* pair.split_once('=').map(|(key, value)| (key.trim(), value.trim()))
SplitOnce(pair) ==
    LET j == RunEndNot(pair, 0, {"="})
    IN IF j >= Len(pair) THEN None
       ELSE Some([key |-> Trim(Slice(pair, 0, j)),
                  value |-> Trim(Slice(pair, j + 1, Len(pair)))])

\* the (key, value) items that filter_map keeps, in order.
ParsedPairs(t) ==
    LET pieces == Split(t, ",")
        kept == SelectSeq(pieces, LAMBDA piece : SplitOnce(piece).some)
    IN [k \in 1..Len(kept) |-> SplitOnce(kept[k]).v]

\* HashMap::get on the collected map: collect() inserts the items in order,
\* so the last item with the key is the one the map holds.
MapGet(pairs, key) ==
    LET hits == {k \in 1..Len(pairs) : pairs[k].key = key}
    IN IF hits = {} THEN None ELSE Some(pairs[Max(hits)].value)

_parse_param_str(t) == ParsedPairs(t)

KEY_COLAB == <<"c","o","l","a","b">>

KEY_READING_TIME == <<"r","e","a","d","i","n","g","_","t","i","m","e">>

KEY_SUBMIT_ISSUE == <<"s","u","b","m","i","t","_","i","s","s","u","e">>

STR_FALSE == <<"f","a","l","s","e">>

\* mutant of BoolSetting: starts_with("false") in place of == "false"
BoolSettingPrefix(param_map, key) ==
    ~(MapGet(param_map, key).some /\ StartsWith(MapGet(param_map, key).v, STR_FALSE))

\* !matches!(param_map.get(key), Some(bool_str) if bool_str == "false")
BoolSetting(param_map, key) ==
    ~(MapGet(param_map, key).some /\ MapGet(param_map, key).v = STR_FALSE)

from_param_str(t) ==
    LET param_map == _parse_param_str(t)
    IN [reading_time |-> BoolSetting(param_map, KEY_READING_TIME),
        submit_issue |-> BoolSetting(param_map, KEY_SUBMIT_ISSUE),
        colab |-> MapGet(param_map, KEY_COLAB)]

(***************************************************************************)
(* Reading time: single-precision arithmetic                               *)
(***************************************************************************)

WORDS_PER_MINUTE == 200

RECURSIVE Pow2(_)
Pow2(n) == IF n = 0 THEN 1 ELSE 2 * Pow2(n - 1)

\* the number of bits n has beyond the 24 of an f32 significand
RECURSIVE ExcessBits(_)
ExcessBits(n) == IF n < Pow2(24) THEN 0 ELSE 1 + ExcessBits(n \div 2)

\* `n as f32` for an unsigned integer: n rounded to 24 significant bits,
\* ties to the even significand.  The result is an integer.
UsizeAsF32(n) ==
    LET step == Pow2(ExcessBits(n))
        sig == n \div step
        rem == n % step
    IN IF 2 * rem > step \/ (2 * rem = step /\ step > 1 /\ sig % 2 = 1)
       THEN (sig + 1) * step
       ELSE sig * step

\* long division of rem/d below the binary point until the significand m
\* has 24 bits: the value so far is m / 2^f.
RECURSIVE DivBits(_, _, _, _)
DivBits(m, rem, f, d) ==
    IF m >= Pow2(23) \/ (m = 0 /\ rem = 0) THEN [m |-> m, rem |-> rem, f |-> f]
    ELSE DivBits(2 * m + (IF 2 * rem >= d THEN 1 ELSE 0), (2 * rem) % d, f + 1, d)

\* x / d in f32 for integers x, d that are f32 values, x / d < 2^24: the
\* quotient rounded to 24 significant bits, ties to even, as m / 2^f.
F32Div(x, d) ==
    LET b == DivBits(x \div d, x % d, 0, d)
    IN IF 2 * b.rem > d \/ (2 * b.rem = d /\ b.m % 2 = 1)
       THEN [m |-> b.m + 1, f |-> b.f]
       ELSE [m |-> b.m, f |-> b.f]

\* f32::round: to the nearest integer, half away from zero.
F32Round(q) ==
    IF q.f >= 26 THEN 0
    ELSE (q.m \div Pow2(q.f)) + (IF 2 * (q.m % Pow2(q.f)) >= Pow2(q.f) THEN 1 ELSE 0)

\* (num_words as f32 / WORDS_PER_MINUTE as f32).round()
rt_in_mins(n) == F32Round(F32Div(UsizeAsF32(n), UsizeAsF32(WORDS_PER_MINUTE)))

DigitChars == <<"0","1","2","3","4","5","6","7","8","9">>

\* the decimal digits of n
RECURSIVE Digits(_)
Digits(n) ==
    IF n < 10 THEN <<DigitChars[n + 1]>>
    ELSE Digits(n \div 10) \o <<DigitChars[(n % 10) + 1]>>

\* format!("{:.0} min", rt_in_mins)
ReadingTimeValue(n) == Digits(rt_in_mins(n)) \o <<" ","m","i","n">>

(***************************************************************************)
(* Links and their rendering                                               *)
(***************************************************************************)

NoLink == [start_index |-> 0, end_index |-> 0, link_type |-> DefaultSettings,
           link_text |-> <<>>]

\* mutant of AIPRLink_from_capture: a capture without a name (the escaped
\* alternative) is taken for a default header
AIPRLink_from_capture_Unnamed(t, cap) ==
    IF ~cap.g1.some \/ cap.g1.v = AIPR_HEADER_NAME
    THEN Some([start_index |-> cap.start, end_index |-> cap.end,
               link_type |-> IF cap.g2.some THEN from_param_str(Trim(cap.g2.v))
                             ELSE DefaultSettings,
               link_text |-> Slice(t, cap.start, cap.end)])
    ELSE None

\* AIPRLink::from_capture: Some(link) for the known directive, None for an
\* escaped match (no group 1) and for any other name.
AIPRLink_from_capture(t, cap) ==
    IF cap.g1.some /\ cap.g1.v = AIPR_HEADER_NAME
    THEN Some([start_index |-> cap.start, end_index |-> cap.end,
               link_type |-> IF cap.g2.some THEN from_param_str(Trim(cap.g2.v))
                             ELSE DefaultSettings,
               link_text |-> Slice(t, cap.start, cap.end)])
    ELSE None

\* AIPRLinkIter::next with the underlying CaptureMatches at offset pos: the
\* first capture from_capture accepts, and the offset the scan resumes at.
RECURSIVE AIPRLinkIter_next(_, _)
AIPRLinkIter_next(t, pos) ==
    LET cap == AiprNextCap(t, pos)
    IN IF ~cap.matched THEN [some |-> FALSE, v |-> NoLink, pos |-> Len(t)]
       ELSE IF AIPRLink_from_capture(t, cap).some
       THEN [some |-> TRUE, v |-> AIPRLink_from_capture(t, cap).v, pos |-> cap.end]
       ELSE AIPRLinkIter_next(t, cap.end)

NoMDLink == [start_index |-> 0, end_index |-> 0, text |-> <<>>, url |-> <<>>]

\* mutant of MDLink_from_capture: the scheme of the URL is not looked at
MDLink_from_capture_AnyScheme(cap) ==
    IF cap.g1.some /\ cap.g2.some
    THEN Some([start_index |-> cap.start, end_index |-> cap.end,
               text |-> cap.g1.v, url |-> cap.g2.v])
    ELSE None

\* MDLink::from_capture: Some(link) when the URL starts with https:// or
\* http:// .
MDLink_from_capture(cap) ==
    IF cap.g1.some /\ cap.g2.some
       /\ (StartsWith(cap.g2.v, HTTPS_PREFIX) \/ StartsWith(cap.g2.v, HTTP_PREFIX))
    THEN Some([start_index |-> cap.start, end_index |-> cap.end,
               text |-> cap.g1.v, url |-> cap.g2.v])
    ELSE None

\* mutant of MDLinkIter_next: the scan resumes one character after the start
\* of a match instead of at its end
RECURSIVE MDLinkIter_next_Overlapping(_, _)
MDLinkIter_next_Overlapping(t, pos) ==
    LET cap == MdNextCap(t, pos)
    IN IF ~cap.matched THEN [some |-> FALSE, v |-> NoMDLink, pos |-> Len(t)]
       ELSE IF MDLink_from_capture(cap).some
       THEN [some |-> TRUE, v |-> MDLink_from_capture(cap).v,
             pos |-> cap.start + 1]
       ELSE MDLinkIter_next_Overlapping(t, cap.start + 1)

\* MDLinkIter::next
RECURSIVE MDLinkIter_next(_, _)
MDLinkIter_next(t, pos) ==
    LET cap == MdNextCap(t, pos)
    IN IF ~cap.matched THEN [some |-> FALSE, v |-> NoMDLink, pos |-> Len(t)]
       ELSE IF MDLink_from_capture(cap).some
       THEN [some |-> TRUE, v |-> MDLink_from_capture(cap).v, pos |-> cap.end]
       ELSE MDLinkIter_next(t, cap.end)

\* the data AIPRLink::render builds for the header template
HeaderData(st, n) ==
    [colab_nb |-> st.colab,
     submit_issue |-> st.submit_issue,
     reading_time |-> IF st.reading_time THEN Some(ReadingTimeValue(n)) ELSE None]

\* templates/header.hbs applied to the data.  Each token stands for a fixed
\* piece of template text (none of which contains [ ] ( ) or a backslash);
\* the interpolated values are spliced in as characters.
RenderHeaderTemplate(data) ==
    <<"<header>">>
    \o (IF data.submit_issue THEN <<"<submit-issue-link/>">> ELSE <<>>)
    \o (IF data.colab_nb.some
        THEN <<"<colab-link href=">> \o data.colab_nb.v \o <<"/>">>
        ELSE <<>>)
    \o (IF data.reading_time.some
        THEN <<"<reading-time>">> \o data.reading_time.v \o <<"</reading-time>">>
        ELSE <<>>)
    \o <<"</header>\n">>

\* AIPRLink::render
AIPRLink_render(link, n) == RenderHeaderTemplate(HeaderData(link.link_type, n))

\* templates/md_link.hbs applied to {text, url}
RenderMdLinkTemplate(data) ==
    <<"<a href=">> \o data.url \o <<" target=_blank rel=noopener-noreferrer>">>
    \o data.text \o <<"</a>\n">>

\* MDLink::render
MDLink_render(link) == RenderMdLinkTemplate([text |-> link.text, url |-> link.url])

\* templates/footer.html
AIPR_FOOTER_HTML == <<"<footer/>">>

(***************************************************************************)
(* Inputs                                                                  *)
(***************************************************************************)

\* the largest number of fragments a chapter is put together from
MaxFrags == 2

\* the largest number of comma-separated pairs in a parameter string
MaxPairs == 2

Fragments ==
    { <<"{","{"," ","#">> \o AIPR_HEADER_NAME \o <<" ","}","}">>,
      <<"{","{","#">> \o AIPR_HEADER_NAME \o <<"}","}">>,
      <<"{","{","#">> \o AIPR_HEADER_NAME \o <<" ">> \o KEY_COLAB
          \o <<"=","n","}","}">>,
      <<"{","{","#","f","o","o"," ","x","}","}">>,
      <<"{","{","#","f","o","o"," ">>,
      <<"{","{","#">> \o AIPR_HEADER_NAME \o <<" ">> \o KEY_COLAB \o <<"=">>,
      <<"\\","{","{","#","a","}","}">>,
      <<"\\","{","{","#","a"," ">>,
      <<"[","a","]","(">> \o HTTP_PREFIX \o <<"b",")","}","}">>,
      <<"[","a","]","(">> \o HTTP_PREFIX \o <<"b",")">>,
      <<"[","c","]","(">> \o HTTPS_PREFIX \o <<"d",")">>,
      <<"[","a","]","(","b",")">>,
      <<"[","z"," ">>,
      <<"}","}">>,
      <<"{","{","#">> \o AIPR_HEADER_NAME \o <<"\r","\n","}","}">>,
      <<"!">>, <<"\\">>, <<" ">>, <<"\n">>, <<"t">> }

RECURSIVE ConcatsUpTo(_, _)
ConcatsUpTo(F, n) ==
    IF n = 0 THEN {<<>>}
    ELSE {<<>>} \cup {f \o d : f \in F, d \in ConcatsUpTo(F, n - 1)}

\* the chapters explored
Docs == ConcatsUpTo(Fragments, MaxFrags)

\* the word counts AIPRLink::render is called with where it is explored on
\* its own: zero, a tie (100/200 = 0.5), the values of the unit tests, and
\* one beyond the 24-bit significand of an f32
WordCounts == {0, 100, 200, 201, 301, 16777299}

PairFragments ==
    { KEY_READING_TIME \o <<"=">> \o STR_FALSE,
      KEY_READING_TIME \o <<"=">> \o STR_FALSE \o <<"e">>,
      KEY_READING_TIME \o <<"=","F","a","l","s","e">>,
      KEY_READING_TIME \o <<"="," ">> \o STR_FALSE,
      KEY_READING_TIME \o <<"=">> \o STR_FALSE \o <<"\r">>,
      <<" ">> \o KEY_READING_TIME \o <<" ","=">> \o STR_FALSE \o <<"\n">>,
      KEY_READING_TIME \o <<"=","t","r","u","e">>,
      KEY_READING_TIME \o <<"=">> \o STR_FALSE \o <<"=","x">>,
      <<"x">> \o KEY_READING_TIME \o <<"=">> \o STR_FALSE,
      KEY_READING_TIME,
      KEY_SUBMIT_ISSUE \o <<"=">> \o STR_FALSE,
      KEY_SUBMIT_ISSUE \o <<"=","n","o">>,
      KEY_COLAB \o <<"=","n">>,
      <<"x","=">> \o STR_FALSE }

RECURSIVE JoinsUpTo(_, _)
JoinsUpTo(F, n) ==
    IF n = 0 THEN {<<>>}
    ELSE F \cup {f \o <<",">> \o d : f \in F, d \in JoinsUpTo(F, n - 1) \ {<<>>}}
           \cup {<<>>}

\* the parameter strings explored
ParamStrs == JoinsUpTo(PairFragments, MaxPairs)

(***************************************************************************)
(* AIPRPreprocessor::run on one chapter                                    *)
(***************************************************************************)

\* words_count::count(&ch.content).words: a word is a maximal run of
\* characters that are not white space (the crate's further rules, for
\* hyphens in a row and for CJK characters, concern characters that do not
\* occur in the chapters explored)
words_count(t) ==
    Cardinality({i \in 1..Len(t) :
                    t[i] \notin WhiteSpace /\ (i = 1 \/ t[i - 1] \in WhiteSpace)})

\* run up to the call of replace_all: the word count is taken from the
\* chapter content
Init ==
    /\ s \in Docs
    /\ num_words = words_count(s)
    /\ pc = "aipr"
    /\ it = 0
    /\ previous_end_index = 0
    /\ replaced = <<>>
    /\ aipr_replaced = <<>>
    /\ content = <<>>
    /\ renders = <<>>
    /\ events = <<>>
    /\ result = "none"
    /\ param_str = <<>>
    /\ settings = DefaultSettings

\* replace_all_aipr_links, one iteration of the for loop
AiprLoopBody ==
    /\ pc = "aipr"
    /\ AIPRLinkIter_next(s, it).some
    /\ LET nxt == AIPRLinkIter_next(s, it)
           link == nxt.v
           prefix == Slice(s, previous_end_index, link.start_index)
           new_content == AIPRLink_render(link, num_words)
       IN /\ replaced' = replaced \o prefix \o new_content
          /\ previous_end_index' = link.end_index
          /\ it' = nxt.pos
          /\ renders' = Append(renders, [template |-> "aipr_header",
                                         data |-> HeaderData(link.link_type, num_words)])
          /\ events' = Append(events,
                 [pass |-> "aipr", start_index |-> link.start_index,
                  end_index |-> link.end_index, rendered |-> TRUE,
                  out_start |-> Len(replaced) + Len(prefix),
                  out_end |-> Len(replaced) + Len(prefix) + Len(new_content)])
    /\ UNCHANGED <<s, num_words, pc, aipr_replaced, content, result, param_str,
                   settings>>

\* replace_all_aipr_links after the loop: the tail is copied and the result
\* handed to replace_all_md_links
AiprLoopEnd ==
    /\ pc = "aipr"
    /\ ~AIPRLinkIter_next(s, it).some
    /\ aipr_replaced' = replaced \o Slice(s, previous_end_index, Len(s))
    /\ pc' = "md"
    /\ it' = 0
    /\ previous_end_index' = 0
    /\ replaced' = <<>>
    /\ UNCHANGED <<s, num_words, content, renders, events, result, param_str,
                   settings>>

\* mutant of IsEscaped: only the backslash escapes
IsEscapedBackslashOnly(prefix) ==
    Len(prefix) > 0 /\ prefix[Len(prefix)] = "\\"

\* prefix.chars().last() is Some('\\') or Some('!')
IsEscaped(prefix) ==
    LET last_char == IF Len(prefix) > 0 THEN Some(prefix[Len(prefix)]) ELSE None
    IN last_char = Some("\\") \/ last_char = Some("!")

\* replace_all_md_links, one iteration of the for loop
MdLoopBody ==
    /\ pc = "md"
    /\ MDLinkIter_next(aipr_replaced, it).some
    /\ LET nxt == MDLinkIter_next(aipr_replaced, it)
           link == nxt.v
           prefix == Slice(aipr_replaced, previous_end_index, link.start_index)
           is_escaped == IsEscaped(prefix)
           new_content ==
               IF is_escaped
               THEN Slice(aipr_replaced, link.start_index, link.end_index)
               ELSE MDLink_render(link)
       IN /\ replaced' = replaced \o prefix \o new_content
          /\ previous_end_index' = link.end_index
          /\ it' = nxt.pos
          /\ renders' = IF is_escaped THEN renders
                        ELSE Append(renders, [template |-> "md_link_expansion",
                                 data |-> [text |-> link.text, url |-> link.url]])
          /\ events' = Append(events,
                 [pass |-> "md", start_index |-> link.start_index,
                  end_index |-> link.end_index, rendered |-> ~is_escaped,
                  out_start |-> Len(replaced) + Len(prefix),
                  out_end |-> Len(replaced) + Len(prefix) + Len(new_content)])
    /\ UNCHANGED <<s, num_words, pc, aipr_replaced, content, result, param_str,
                   settings>>

\* mutant of MdLoopEnd: the text after the last link is not copied
MdLoopEndNoTail ==
    /\ pc = "md"
    /\ ~MDLinkIter_next(aipr_replaced, it).some
    /\ pc' = "footer"
    /\ UNCHANGED <<s, num_words, it, previous_end_index, replaced, aipr_replaced,
                   content, renders, events, result, param_str, settings>>

\* replace_all_md_links after the loop: replaced is what replace_all returns
MdLoopEnd ==
    /\ pc = "md"
    /\ ~MDLinkIter_next(aipr_replaced, it).some
    /\ replaced' = replaced \o Slice(aipr_replaced, previous_end_index,
                                     Len(aipr_replaced))
    /\ pc' = "footer"
    /\ UNCHANGED <<s, num_words, it, previous_end_index, aipr_replaced, content,
                   renders, events, result, param_str, settings>>

\* run: the footer is pushed and the chapter content replaced
RunFooter ==
    /\ pc = "footer"
    /\ content' = replaced \o AIPR_FOOTER_HTML
    /\ pc' = "done"
    /\ result' = "Ok"
    /\ UNCHANGED <<s, num_words, it, previous_end_index, replaced, aipr_replaced,
                   renders, events, param_str, settings>>

Next == AiprLoopBody \/ AiprLoopEnd \/ MdLoopBody \/ MdLoopEnd \/ RunFooter

Spec == Init /\ [][Next]_vars

(***************************************************************************)
(* Vocabulary of the properties                                            *)
(***************************************************************************)

\* every capture of the directive scan of t from offset pos on, in order
RECURSIVE AiprCaps(_, _)
AiprCaps(t, pos) ==
    LET c == AiprNextCap(t, pos)
    IN IF c.matched THEN <<c>> \o AiprCaps(t, c.end) ELSE <<>>

\* every capture of the link scan of t from offset pos on, in order
RECURSIVE MdCaps(_, _)
MdCaps(t, pos) ==
    LET c == MdNextCap(t, pos)
    IN IF c.matched THEN <<c>> \o MdCaps(t, c.end) ELSE <<>>

Range(f) == {f[k] : k \in DOMAIN f}

\* p occurs in t as a contiguous piece
Contains(t, p) == \E i \in 0..(Len(t) - Len(p)) : Slice(t, i, i + Len(p)) = p

\* the directive pass has returned: aipr_replaced is its output
AiprPassDone == pc \in {"md", "footer", "done"}

\* the link pass has returned: replaced is the output of replace_all
MdPassDone == pc \in {"footer", "done"}

\* the offset in the output of a pass that the offset x of its input is
\* copied to, for an x that lies in no replaced span: the output runs in step
\* with the input from the end of the last match handled before x.
Image(pass, x) ==
    LET E == {k \in DOMAIN events :
                 events[k].pass = pass /\ events[k].end_index <= x}
    IN IF E = {} THEN x
       ELSE events[Max(E)].out_end + (x - events[Max(E)].end_index)

\* a match rendered by the pass overlaps the span [a, b) of its input
Overlapped(pass, a, b) ==
    \E k \in DOMAIN events :
        /\ events[k].pass = pass /\ events[k].rendered
        /\ events[k].start_index < b /\ events[k].end_index > a

\* the piece p stands in t at offset a
StandsAt(t, a, p) == a + Len(p) <= Len(t) /\ Slice(t, a, a + Len(p)) = p

\* the span [a, b) of the input of a pass stands unchanged in its output
CopiedVerbatim(pass, input, output, a, b) ==
    StandsAt(output, Image(pass, a), Slice(input, a, b))

IsHttpUrl(u) == StartsWith(u, HTTPS_PREFIX) \/ StartsWith(u, HTTP_PREFIX)

\* the character before offset i is an escape character of the link pass
PrecededByEscape(t, i) == At(t, i - 1) \in {"\\", "!"}

(***************************************************************************)
(* C1                                                                      *)
(***************************************************************************)

\* the chapter holds no directive marker and no link marker
NoMarkers(t) == ~AiprNextCap(t, 0).matched /\ ~MdNextCap(t, 0).matched

\* C1: for a chapter with no directive marker and no link marker replace_all
\* returns its input unchanged, whatever its word count, and the chapter content
\* run produces is that input followed by the footer.
C1_NoMarkersUnchanged ==
    NoMarkers(s) =>
        /\ MdPassDone => replaced = s
        /\ pc = "done" => content = s \o AIPR_FOOTER_HTML

\* a chapter of two words with an unclosed marker opening
C1_Witness ==
    /\ pc = "done" /\ NoMarkers(s) /\ Len(s) > 1 /\ num_words = 2
    /\ "{" \in Range(s)

(***************************************************************************)
(* C8                                                                      *)
(***************************************************************************)

\* what the claim says the link pass emits for the captures caps of t from
\* offset from on: rendered markup for a capture with an http(s) URL that no
\* escape character precedes, the matched text for any other capture, and the
\* text between captures as it is.
RECURSIVE MdExpected(_, _, _)
MdExpected(t, caps, from) ==
    IF caps = <<>> THEN Slice(t, from, Len(t))
    ELSE LET c == Head(caps)
         IN Slice(t, from, c.start)
            \o (IF IsHttpUrl(c.g2.v) /\ ~PrecededByEscape(t, c.start)
                THEN RenderMdLinkTemplate([text |-> c.g1.v, url |-> c.g2.v])
                ELSE Slice(t, c.start, c.end))
            \o MdExpected(t, Tail(caps), c.end)

\* C8: in the link pass a link match is replaced by rendered anchor markup if
\* and only if its URL starts with http:// or https:// and the character
\* just before the match is neither \ nor !; otherwise the matched text is
\* emitted unchanged.  Stated for every iteration of the loop and for the
\* output as a whole.
C8_LinkPassIff ==
    /\ \A k \in DOMAIN events :
          events[k].pass = "md" =>
             /\ events[k].rendered
                  <=> ~PrecededByEscape(aipr_replaced, events[k].start_index)
             /\ IsHttpUrl(MdCapAt(aipr_replaced, events[k].start_index).g2.v)
    /\ MdPassDone =>
          replaced = MdExpected(aipr_replaced, MdCaps(aipr_replaced, 0), 0)

\* a rendered link at offset 0 and a second rendered link starting where the
\* first ended
C8_Witness ==
    /\ MdPassDone
    /\ Len(events) = 2
    /\ events[1].pass = "md" /\ events[1].rendered /\ events[1].start_index = 0
    /\ events[2].pass = "md" /\ events[2].rendered
    /\ events[2].start_index = events[1].end_index

(***************************************************************************)
(* C2                                                                      *)
(***************************************************************************)

\* first offset j >= i at which }} stands (Len(t) if there is none)
RECURSIVE FirstClose(_, _)
FirstClose(t, i) ==
    IF i + 1 >= Len(t) THEN Len(t)
    ELSE IF t[i + 1] = "}" /\ t[i + 2] = "}" THEN i
    ELSE FirstClose(t, i + 1)

\* the spans <<start, end>> of the escaped directive occurrences of t: a
\* backslash, {{# and content up to }}
EscapedDirectiveSpans(t) ==
    {<<i, FirstClose(t, i + 4) + 2>> :
        i \in {j \in 0..(Len(t) - 1) :
                 /\ At(t, j) = "\\" /\ At(t, j + 1) = "{" /\ At(t, j + 2) = "{"
                 /\ At(t, j + 3) = "#" /\ FirstClose(t, j + 4) < Len(t)}}

\* the spans of the link occurrences of t that \ or ! precedes
EscapedLinkSpans(t) ==
    {<<i, MdCapAt(t, i).end>> :
        i \in {j \in 0..(Len(t) - 1) :
                 MdCapAt(t, j).matched /\ PrecededByEscape(t, j)}}

\* C2 as stated: every escaped directive occurrence and every link
\* occurrence preceded by \ or ! appears in the output of replace_all
\* byte-identical to its source form, whatever it contains.
C2_EscapedAppearInOutput ==
    MdPassDone =>
        \A sp \in EscapedDirectiveSpans(s) \cup EscapedLinkSpans(s) :
            Contains(replaced, Slice(s, sp[1], sp[2]))

\* C2 as amended: every escaped match of the directive scan is copied
\* unchanged by the directive pass, and reaches the output of replace_all
\* unchanged unless the link pass replaces a link overlapping it; every match
\* of the link scan that \ or ! precedes is copied unchanged by the link
\* pass, whatever its URL scheme.
C2_EscapedCopiedByItsPass ==
    /\ AiprPassDone =>
          \A c \in Range(AiprCaps(s, 0)) :
             ~c.g1.some =>
                /\ CopiedVerbatim("aipr", s, aipr_replaced, c.start, c.end)
                /\ (MdPassDone
                    /\ ~Overlapped("md", Image("aipr", c.start),
                                   Image("aipr", c.start) + (c.end - c.start)))
                   => StandsAt(replaced, Image("md", Image("aipr", c.start)),
                               Slice(s, c.start, c.end))
    /\ MdPassDone =>
          \A c \in Range(MdCaps(aipr_replaced, 0)) :
             PrecededByEscape(aipr_replaced, c.start) =>
                CopiedVerbatim("md", aipr_replaced, replaced, c.start, c.end)

\* an escaped directive after a rendered header, both passes done
C2_Witness ==
    /\ MdPassDone
    /\ Len(events) = 1 /\ events[1].pass = "aipr"
    /\ \E c \in Range(AiprCaps(s, 0)) :
          ~c.g1.some /\ c.start >= events[1].end_index

(***************************************************************************)
(* C3                                                                      *)
(***************************************************************************)

\* the spans of the directive markers of t whose name is not a known one
\* (and that no backslash precedes)
UnknownDirectiveSpans(t) ==
    {<<i, MarkerAt(t, i).end>> :
        i \in {j \in 0..(Len(t) - 1) :
                 /\ MarkerAt(t, j).matched
                 /\ MarkerAt(t, j).g1.v # AIPR_HEADER_NAME
                 /\ At(t, j - 1) # "\\"}}

\* the spans of the links of t whose URL has no http(s) scheme
NonHttpLinkSpans(t) ==
    {<<i, MdCapAt(t, i).end>> :
        i \in {j \in 0..(Len(t) - 1) :
                 MdCapAt(t, j).matched /\ ~IsHttpUrl(MdCapAt(t, j).g2.v)}}

\* C3 as stated: every directive marker with an unknown name and every link
\* without an http(s) URL is emitted by replace_all exactly as in the source,
\* parameter blob and link text included.
C3_UnknownAppearInOutput ==
    MdPassDone =>
        \A sp \in UnknownDirectiveSpans(s) \cup NonHttpLinkSpans(s) :
            Contains(replaced, Slice(s, sp[1], sp[2]))

\* C3 as amended: every match of the directive scan with an unknown name is
\* copied unchanged by the directive pass, and reaches the output of
\* replace_all unchanged unless the link pass replaces a link overlapping
\* it; every match of the link scan whose URL has no http(s) scheme is copied
\* unchanged by the link pass.
C3_UnknownCopiedByItsPass ==
    /\ AiprPassDone =>
          \A c \in Range(AiprCaps(s, 0)) :
             (c.g1.some /\ c.g1.v # AIPR_HEADER_NAME) =>
                /\ CopiedVerbatim("aipr", s, aipr_replaced, c.start, c.end)
                /\ (MdPassDone
                    /\ ~Overlapped("md", Image("aipr", c.start),
                                   Image("aipr", c.start) + (c.end - c.start)))
                   => StandsAt(replaced, Image("md", Image("aipr", c.start)),
                               Slice(s, c.start, c.end))
    /\ MdPassDone =>
          \A c \in Range(MdCaps(aipr_replaced, 0)) :
             ~IsHttpUrl(c.g2.v) =>
                CopiedVerbatim("md", aipr_replaced, replaced, c.start, c.end)

\* a link without scheme after a rendered link, both passes done
C3_Witness ==
    /\ MdPassDone
    /\ Len(events) = 1 /\ events[1].pass = "md" /\ events[1].rendered
    /\ \E c \in Range(MdCaps(aipr_replaced, 0)) :
          ~IsHttpUrl(c.g2.v) /\ c.start >= events[1].end_index

(***************************************************************************)
(* C4                                                                      *)
(***************************************************************************)

\* {{#aipr_header}}
TightHeader == <<"{","{","#">> \o AIPR_HEADER_NAME \o <<"}","}">>

\* C4: the helper written exactly as {{#aipr_header}} is found by
\* find_aipr_links as a Header directive with default settings and replaced
\* by the rendered default header.
C4_TightHeaderSupported ==
    s = TightHeader =>
        /\ AIPRLinkIter_next(s, 0).some
        /\ AIPRLinkIter_next(s, 0).v.link_type = DefaultSettings
        /\ MdPassDone =>
              replaced = RenderHeaderTemplate(HeaderData(DefaultSettings, num_words))

(***************************************************************************)
(* C10                                                                     *)
(***************************************************************************)

\* a well-formed occurrence of the known directive starts at offset i
WellFormedHeaderAt(t, i) ==
    MarkerAt(t, i).matched /\ MarkerAt(t, i).g1.v = AIPR_HEADER_NAME

\* offset i lies inside another marker of t: an escaped directive occurrence
\* or a directive marker that starts before i and ends after it
InsideOtherMarker(t, i) ==
    \/ \E sp \in EscapedDirectiveSpans(t) : sp[1] < i /\ i < sp[2]
    \/ \E j \in 0..(i - 1) : MarkerAt(t, j).matched /\ MarkerAt(t, j).end > i

\* C10: every well-formed occurrence of the known directive that no
\* backslash precedes is replaced in the directive pass, whatever stands
\* before it.  (Stated for the occurrences that begin outside every other
\* marker.)
C10_EveryHeaderReplaced ==
    AiprPassDone =>
        \A i \in 0..(Len(s) - 1) :
            (/\ WellFormedHeaderAt(s, i) /\ At(s, i - 1) # "\\"
             /\ ~InsideOtherMarker(s, i)) =>
                \E k \in DOMAIN events :
                    /\ events[k].pass = "aipr" /\ events[k].rendered
                    /\ events[k].start_index = i

(***************************************************************************)
(* C11                                                                     *)
(***************************************************************************)

\* the span [a, b) of the input of the link pass is touched by no match the
\* link loop was handed
UntouchedByLinkPass(a, b) ==
    \A m \in DOMAIN events :
        events[m].pass = "md" =>
            (events[m].end_index <= a \/ events[m].start_index >= b)

\* C11: the markup rendered for a directive in the directive pass reaches the
\* output of replace_all unchanged: the link pass matches no part of it and
\* rewrites no part of it, whatever the colab parameter carried into it.
C11_RenderedNeverRescanned ==
    MdPassDone =>
        \A k \in DOMAIN events :
            events[k].pass = "aipr" =>
                /\ UntouchedByLinkPass(events[k].out_start, events[k].out_end)
                /\ StandsAt(replaced, Image("md", events[k].out_start),
                            Slice(aipr_replaced, events[k].out_start,
                                  events[k].out_end))

(***************************************************************************)
(* C12                                                                     *)
(***************************************************************************)

\* the text a pass scans
Scanned(pass) == IF pass = "aipr" THEN s ELSE aipr_replaced

\* the match the loop of the running pass is handed next, if there is one
NextMatch ==
    IF pc = "aipr" THEN AIPRLinkIter_next(s, it)
    ELSE MDLinkIter_next(aipr_replaced, it)

\* the matches handed to the loops so far are non-empty, lie in the scanned
\* text and follow one another without overlap; in a running loop the cursor
\* lies in the scanned text and the next match starts at or after it, so the
\* slices prefix = [cursor, start), [start, end) and tail = [cursor, len) are
\* valid ranges
MatchesOrdered ==
    /\ \A k \in DOMAIN events :
          /\ events[k].start_index < events[k].end_index
          /\ events[k].end_index <= Len(Scanned(events[k].pass))
    /\ \A k \in 1..(Len(events) - 1) :
          events[k].pass = events[k + 1].pass =>
             events[k].end_index <= events[k + 1].start_index
    /\ pc \in {"aipr", "md"} =>
          /\ previous_end_index >= 0
          /\ previous_end_index <= Len(Scanned(pc))
          /\ NextMatch.some =>
                /\ previous_end_index <= NextMatch.v.start_index
                /\ NextMatch.v.start_index < NextMatch.v.end_index
                /\ NextMatch.v.end_index <= Len(Scanned(pc))

\* a step of a loop does not move the cursor backwards
CursorStep ==
    (pc \in {"aipr", "md"} /\ pc' = pc) => previous_end_index' >= previous_end_index

\* C12: in the directive scan and in the link scan the matches handed to the
\* replacement loop satisfy start < end <= length of the scanned text and
\* match[i].end <= match[i+1].start; at every iteration the cursor
\* previous_end_index is <= the start of the next match, every slice taken is
\* a valid range, and the cursor never moves backwards.
C12_OffsetsOrdered == []MatchesOrdered /\ [][CursorStep]_vars

\* two adjacent directive matches handled, the cursor at the end of the text
C12_Witness ==
    /\ pc = "aipr" /\ Len(events) = 2
    /\ events[2].start_index = events[1].end_index
    /\ previous_end_index = events[2].end_index
    /\ previous_end_index = Len(s)

(***************************************************************************)
(* Rendering failure                                                       *)
(***************************************************************************)

\* replace_all_aipr_links when link.render returns Err: unwrap() panics
\* after the prefix has been pushed
AiprRenderFails ==
    /\ pc = "aipr"
    /\ AIPRLinkIter_next(s, it).some
    /\ LET link == AIPRLinkIter_next(s, it).v
       IN replaced' = replaced \o Slice(s, previous_end_index, link.start_index)
    /\ pc' = "failed"
    /\ result' = "panic"
    /\ UNCHANGED <<s, num_words, it, previous_end_index, aipr_replaced, content,
                   renders, events, param_str, settings>>

\* replace_all_md_links when link.render returns Err: unwrap() panics
MdRenderFails ==
    /\ pc = "md"
    /\ MDLinkIter_next(aipr_replaced, it).some
    /\ LET link == MDLinkIter_next(aipr_replaced, it).v
           prefix == Slice(aipr_replaced, previous_end_index, link.start_index)
       IN /\ ~IsEscaped(prefix)
          /\ replaced' = replaced \o prefix
    /\ pc' = "failed"
    /\ result' = "panic"
    /\ UNCHANGED <<s, num_words, it, previous_end_index, aipr_replaced, content,
                   renders, events, param_str, settings>>

NextFail ==
    \/ AiprLoopBody \/ AiprLoopEnd \/ MdLoopBody \/ MdLoopEnd \/ RunFooter
    \/ AiprRenderFails \/ MdRenderFails

\* run on one chapter with a template engine that may fail
SpecFail == Init /\ [][NextFail]_vars

\* C9: if rendering fails for a match, the transform aborts and the failure
\* reaches the caller as an error; no output is produced for the chapter.
C9_RenderFailureIsError ==
    pc = "failed" => (result = "Err" /\ content = <<>>)

(***************************************************************************)
(* AIPRHeaderSettings::from_param_str followed by AIPRLink::render         *)
(***************************************************************************)

InitSettings ==
    /\ param_str \in ParamStrs
    /\ num_words \in WordCounts
    /\ pc = "parse"
    /\ s = <<>>
    /\ it = 0
    /\ previous_end_index = 0
    /\ replaced = <<>>
    /\ aipr_replaced = <<>>
    /\ content = <<>>
    /\ renders = <<>>
    /\ events = <<>>
    /\ result = "none"
    /\ settings = DefaultSettings

\* AIPRHeaderSettings::from_param_str(param_str)
FromParamStr ==
    /\ pc = "parse"
    /\ settings' = from_param_str(param_str)
    /\ pc' = "render"
    /\ UNCHANGED <<s, num_words, it, previous_end_index, replaced, aipr_replaced,
                   content, renders, events, result, param_str>>

\* AIPRLink::render(num_words) of a header link with these settings
RenderSettings ==
    /\ pc = "render"
    /\ renders' = Append(renders, [template |-> "aipr_header",
                                   data |-> HeaderData(settings, num_words)])
    /\ replaced' = RenderHeaderTemplate(HeaderData(settings, num_words))
    /\ pc' = "rendered"
    /\ UNCHANGED <<s, num_words, it, previous_end_index, aipr_replaced, content,
                   events, result, param_str, settings>>

NextSettings == FromParamStr \/ RenderSettings

SpecSettings == InitSettings /\ [][NextSettings]_vars

\* piece is a pair for key: the text before its first = is key,
\* surrounding white space aside
IsPairFor(piece, key) ==
    \E j \in 1..Len(piece) :
        /\ piece[j] = "=" /\ \A i \in 1..(j - 1) : piece[i] # "="
        /\ Trim(SubSeq(piece, 1, j - 1)) = key

\* the text after the first = of piece, as written
RawValue(piece) ==
    LET j == CHOOSE j \in 1..Len(piece) :
                 piece[j] = "=" /\ \A i \in 1..(j - 1) : piece[i] # "="
    IN SubSeq(piece, j + 1, Len(piece))

\* the last comma-separated pair of t for key has the value false,
\* surrounding white space aside
LastPairIsFalse(t, key) ==
    LET pieces == Split(t, ",")
    IN \E k \in 1..Len(pieces) :
          /\ IsPairFor(pieces[k], key)
          /\ Trim(RawValue(pieces[k])) = STR_FALSE
          /\ \A m \in (k + 1)..Len(pieces) : ~IsPairFor(pieces[m], key)

\* the rendered header carries no reading-time element
NoReadingTimeElement ==
    /\ ~renders[1].data.reading_time.some
    /\ "<reading-time>" \notin Range(replaced)

(***************************************************************************)
(* C6                                                                      *)
(***************************************************************************)

\* C6 as stated: for every settings string that contains the text
\* reading_time=false among its comma-separated pairs, from_param_str yields
\* reading_time = false and the rendered header carries no reading-time
\* element, for every word count.  (Stated for the strings in which a pair
\* begins with that text.)
C6_ContainsTextDisables ==
    (\E piece \in Range(Split(param_str, ",")) :
        StartsWith(piece, KEY_READING_TIME \o <<"=">> \o STR_FALSE)) =>
        /\ pc # "parse" => ~settings.reading_time
        /\ pc = "rendered" => NoReadingTimeElement

\* C6 as amended: for every settings string whose last pair for the key
\* reading_time has the value false (white space around key and value
\* aside), from_param_str yields reading_time = false and the rendered header
\* carries no reading-time element, for every word count.
C6_LastPairFalseDisables ==
    LastPairIsFalse(param_str, KEY_READING_TIME) =>
        /\ pc # "parse" => ~settings.reading_time
        /\ pc = "rendered" => NoReadingTimeElement

\* reading_time=false among other pairs, rendered for 301 words
C6_Witness ==
    /\ pc = "rendered" /\ num_words = 301
    /\ LastPairIsFalse(param_str, KEY_READING_TIME)
    /\ Len(Split(param_str, ",")) = 2
    /\ settings.colab.some

(***************************************************************************)
(* C7                                                                      *)
(***************************************************************************)

BoolKeys == {KEY_READING_TIME, KEY_SUBMIT_ISSUE}

SettingOf(st, key) ==
    IF key = KEY_READING_TIME THEN st.reading_time ELSE st.submit_issue

\* C7 as stated: a boolean setting is false only if the value written for
\* its key is exactly the string false; any other value leaves it true.
C7_FalseOnlyIfExactlyFalse ==
    pc # "parse" =>
        \A key \in BoolKeys :
            ~SettingOf(settings, key) =>
                \E piece \in Range(Split(param_str, ",")) :
                    IsPairFor(piece, key) /\ RawValue(piece) = STR_FALSE

\* C7 as amended: a boolean setting is false if and only if the last pair
\* written for its key has, once the white space around key and value is
\* trimmed, exactly the value false; any other value, an absent key, an
\* unrecognized key and a pair without = leave it true.
C7_FalseIffTrimmedFalse ==
    pc # "parse" =>
        \A key \in BoolKeys :
            ~SettingOf(settings, key) <=> LastPairIsFalse(param_str, key)

\* submit_issue switched off while a reading_time pair with another value
\* leaves reading_time on
C7_Witness ==
    /\ pc = "rendered"
    /\ ~settings.submit_issue /\ settings.reading_time
    /\ \E piece \in Range(Split(param_str, ",")) :
          IsPairFor(piece, KEY_READING_TIME)

(***************************************************************************)
(* AIPRLink::from_capture followed by AIPRLink::render                     *)
(***************************************************************************)

\* the header markers explored: white space or none before the #, a
\* separator after the name, and no parameters or one pair
HeaderMarkers ==
    {<<"{","{">> \o lead \o <<"#">> \o AIPR_HEADER_NAME \o sep \o params
        \o <<"}","}">> :
        lead \in {<<>>, <<" ">>},
        sep \in {<<" ">>, <<"\t">>, <<"\r","\n">>},
        params \in {<<>>, KEY_COLAB \o <<"=","n"," ">>,
                    KEY_READING_TIME \o <<"=">> \o STR_FALSE}}

\* a marker text and the word count render is called with (render takes the
\* count as a parameter: the unit tests call it with 201 and 301 for links of
\* a few words)
InitRender ==
    /\ s \in HeaderMarkers
    /\ num_words \in WordCounts
    /\ pc = "capture"
    /\ it = 0
    /\ previous_end_index = 0
    /\ replaced = <<>>
    /\ aipr_replaced = <<>>
    /\ content = <<>>
    /\ renders = <<>>
    /\ events = <<>>
    /\ result = "none"
    /\ param_str = <<>>
    /\ settings = DefaultSettings

\* find_aipr_links(s).next(): the link AIPRLink::from_capture builds for the
\* marker, of which link_type holds the settings
FromCapture ==
    /\ pc = "capture"
    /\ AIPRLinkIter_next(s, 0).some
    /\ settings' = AIPRLinkIter_next(s, 0).v.link_type
    /\ pc' = "render"
    /\ UNCHANGED <<s, num_words, it, previous_end_index, replaced, aipr_replaced,
                   content, renders, events, result, param_str>>

NextRender == FromCapture \/ RenderSettings

SpecRender == InitRender /\ [][NextRender]_vars

(***************************************************************************)
(* C5                                                                      *)
(***************************************************************************)

\* round(w / 200), half away from zero, in exact arithmetic
ExactMinutes(w) == (w + 100) \div 200

\* C5: a well-formed header marker without parameters is resolved to the
\* settings reading_time = true, submit_issue = true, colab absent, and is
\* rendered with the data submit_issue = true, no colab reference and the
\* reading time "<N> min", N = round(w / 200) rounded half away from zero,
\* for every word count w.
C5_DefaultHeaderData ==
    (WellFormedHeaderAt(s, 0) /\ ~MarkerAt(s, 0).g2.some) =>
        /\ pc # "capture" => settings = DefaultSettings
        /\ pc = "rendered" =>
              renders[1].data =
                  [colab_nb |-> None, submit_issue |-> TRUE,
                   reading_time |->
                       Some(Digits(ExactMinutes(num_words)) \o <<" ","m","i","n">>)]

====
